---------------------------- MODULE Spec2Model ----------------------------
(***************************************************************************)
(* Background job queue and daily usage metering of bmcore2.0, as defined  *)
(* by the SQL migration "Cost Tracking & Background Job Queue":            *)
(*   tables    daily_usage_metrics, job_queue                              *)
(*   functions increment_usage_metric, enqueue_job, get_next_job,          *)
(*             complete_job, cleanup_old_jobs                              *)
(*                                                                         *)
(* Time is counted in whole minutes.  A timestamptz column is a natural    *)
(* number, SQL NULL in such a column is NULL (-1).  The bookkeeping        *)
(* columns created_at / updated_at are written by every statement and read *)
(* by none; they are left out of the row.                                  *)
(***************************************************************************)
EXTENDS Integers, Sequences, FiniteSets, TLC

\* ------------------------------------------------------------------ bounds
\* the clock stops at MaxTime; complete_job is not called on a row whose
\* retry_count has reached MaxRetryCount
MaxTime == 1
MaxRetryCount == 2
MaxWorkerTime == 3
MaxConcTime == 1
MaxConcRetryCount == 1
MaxCalls == 4
MaxDays == 2
MaxStuckCalls == 1

\* ------------------------------------------------------- program constants
DefaultPriority == 5
DefaultMaxRetries == 3
DefaultDaysOld == 7
MinutesPerDay == 1440

\* the greatest value of the integer columns of daily_usage_metrics
MaxInt == 2147483647

NULL == -1
NoJob == 0
NoMessage == "NULL"

Statuses == {"pending", "processing", "completed", "failed"}
Terminal == {"completed", "failed"}

\* ------------------------------------------------------------ input sets
\* the ids gen_random_uuid() can hand out, in the order it hands them out
JobIds == {1, 2}
JobTypes == {"email"}
Payloads == {"{}"}
Priorities == {DefaultPriority, 10}
Delays == {0, 1}
MaxRetriesValues == {1}
WorkerMaxRetries == {0, 1, 2}
Messages == {"boom"}
DaysOld == {0, DefaultDaysOld}
PurgeDays == {0, 1}
Workers == {"w1", "w2"}
UsageCallers == {"c1", "c2", "c3"}
UsageKeys == {<<1, "openai", "chat">>, <<1, "openai", "embed">>}
UsageArgs == {<<1, 0, 0>>, <<1, 2, 3>>}
\* integer arguments of either sign
SignedUsageArgs == {<<1, 2, 3>>, <<-1, 0, 0>>, <<0, -2, -3>>}
\* arguments small and large, of either sign
RangeUsageArgs == {<<1, 0, 0>>, <<2, 1, -1>>, <<MaxInt - 2, 0, 0>>}
\* p_usage_count DEFAULT 1, p_tokens_used DEFAULT 0, p_cost_cents DEFAULT 0
DefaultUsageArgs == <<1, 0, 0>>

VARIABLES
  jobs,      \* job_queue: id -> row, for the rows that exist
  nextId,    \* the next id gen_random_uuid() hands out (ids are never reused)
  now,       \* the clock, in minutes
  claimed,   \* history: id -> how many times get_next_job returned the row
  ret        \* the last call that returned: what it was and what it returned

jobVars == <<jobs, nextId, now, claimed, ret>>

Call(op, id, ok, out) == [op |-> op, id |-> id, ok |-> ok, out |-> out]

\* ------------------------------------------------------------- job_queue
\* mutant: the INSERT leaves priority to the column default
NewJob_IgnoresPriority(type, payload, priority, scheduled, maxRetries) ==
  [ job_type      |-> type,
    payload       |-> payload,
    status        |-> "pending",
    priority      |-> DefaultPriority,
    scheduled_at  |-> scheduled,
    started_at    |-> NULL,
    completed_at  |-> NULL,
    error_message |-> NoMessage,
    retry_count   |-> 0,
    max_retries   |-> maxRetries ]

\* INSERT INTO job_queue: the columns the statement names, the rest by default.
NewJob(type, payload, priority, scheduled, maxRetries) ==
  [ job_type      |-> type,
    payload       |-> payload,
    status        |-> "pending",
    priority      |-> priority,
    scheduled_at  |-> scheduled,
    started_at    |-> NULL,
    completed_at  |-> NULL,
    error_message |-> NoMessage,
    retry_count   |-> 0,
    max_retries   |-> maxRetries ]

InsertRow(row) ==
  /\ nextId \in JobIds
  /\ jobs' = [j \in DOMAIN jobs \cup {nextId} |->
                IF j = nextId THEN row ELSE jobs[j]]
  /\ claimed' = [j \in DOMAIN claimed \cup {nextId} |->
                IF j = nextId THEN 0 ELSE claimed[j]]
  /\ nextId' = nextId + 1

\* enqueue_job(p_job_type, p_payload, p_priority, p_scheduled_at) RETURNS uuid
enqueue_job(p_job_type, p_payload, p_priority, p_scheduled_at) ==
  /\ InsertRow(NewJob(p_job_type, p_payload, p_priority, p_scheduled_at,
                      DefaultMaxRetries))
  /\ ret' = Call("enqueue_job", nextId, TRUE, nextId)
  /\ UNCHANGED now

\* enqueue_job(p_job_type): p_payload, p_priority and p_scheduled_at omitted
\* (DEFAULT '{}'::jsonb, DEFAULT 5, DEFAULT now())
enqueue_job_default(p_job_type) ==
  enqueue_job(p_job_type, "{}", DefaultPriority, now)

\* A row written straight into the table (policy "System can manage jobs"),
\* which is the only way to give max_retries a value other than its default.
insert_job(p_priority, p_scheduled_at, p_max_retries) ==
  /\ InsertRow(NewJob("email", "{}", p_priority, p_scheduled_at, p_max_retries))
  /\ ret' = Call("insert_job", nextId, TRUE, nextId)
  /\ UNCHANGED now

\* mutant: the WHERE clause without its scheduled_at test
EligibleRow_AnyTime(row, t) == row.status = "pending"

\* mutant: a row being processed can be claimed again
EligibleRow_Reclaim(row, t) ==
  row.status \in {"pending", "processing"} /\ row.scheduled_at <= t

\* WHERE status = 'pending' AND scheduled_at <= now()
EligibleRow(row, t) == row.status = "pending" /\ row.scheduled_at <= t

Eligible(tbl, t) == {j \in DOMAIN tbl : EligibleRow(tbl[j], t)}

\* mutant: ORDER BY priority ASC, scheduled_at ASC
Before_PriorityAsc(a, b) ==
  \/ a.priority < b.priority
  \/ a.priority = b.priority /\ a.scheduled_at < b.scheduled_at

\* mutant: ORDER BY priority DESC, scheduled_at DESC
Before_NewestFirst(a, b) ==
  \/ a.priority > b.priority
  \/ a.priority = b.priority /\ a.scheduled_at > b.scheduled_at

\* ORDER BY priority DESC, scheduled_at ASC: a sorts strictly before b
Before(a, b) ==
  \/ a.priority > b.priority
  \/ a.priority = b.priority /\ a.scheduled_at < b.scheduled_at

\* LIMIT 1 over the ordered rows S: any row no other row sorts before
FirstOf(tbl, S) == {j \in S : \A k \in S : ~Before(tbl[k], tbl[j])}

\* mutant: the claim also clears error_message
ClaimRow_ClearsError(row, t) ==
  [row EXCEPT !.status = "processing", !.started_at = t,
              !.error_message = NoMessage]

\* SET status = 'processing', started_at = now()
ClaimRow(row, t) == [row EXCEPT !.status = "processing", !.started_at = t]

\* get_next_job() RETURNS SETOF job_queue, run with no other transaction in flight
get_next_job ==
  LET first == FirstOf(jobs, Eligible(jobs, now)) IN
  /\ IF first = {}
       THEN /\ ret' = Call("get_next_job", NoJob, TRUE, NoJob)
            /\ UNCHANGED <<jobs, claimed>>
       ELSE \E j \in first :
            /\ jobs' = [jobs EXCEPT ![j] = ClaimRow(@, now)]
            /\ claimed' = [claimed EXCEPT ![j] = @ + 1]
            /\ ret' = Call("get_next_job", j, TRUE, j)
  /\ UNCHANGED <<nextId, now>>

RECURSIVE Pow2(_)
Pow2(n) == IF n = 0 THEN 1 ELSE 2 * Pow2(n - 1)

\* mutant: the CASE reads retry_count after the increment
FailStatus_AfterIncrement(row) ==
  IF row.retry_count + 1 >= row.max_retries THEN "failed" ELSE "pending"

\* mutant: the CASE tests retry_count > max_retries
FailStatus_OffByOne(row) ==
  IF row.retry_count > row.max_retries THEN "failed" ELSE "pending"

\* mutant: a failure with retries left does not release the row
FailStatus_StaysProcessing(row) ==
  IF row.retry_count >= row.max_retries THEN "failed" ELSE "processing"

\* status = CASE WHEN retry_count >= max_retries THEN 'failed' ELSE 'pending' END
FailStatus(row) ==
  IF row.retry_count >= row.max_retries THEN "failed" ELSE "pending"

\* mutant: power(2, ...) reads retry_count after the increment
FailSchedule_AfterIncrement(row, t) ==
  IF row.retry_count < row.max_retries
    THEN t + Pow2(row.retry_count + 1)
    ELSE row.scheduled_at

\* mutant: a retry with no backoff, due at once
FailSchedule_NoBackoff(row, t) ==
  IF row.retry_count < row.max_retries THEN t ELSE row.scheduled_at

\* mutant: the backoff without its CASE, applied on every failure
FailSchedule_Always(row, t) == t + Pow2(row.retry_count)

\* scheduled_at = CASE WHEN retry_count < max_retries
\*                     THEN now() + (power(2, retry_count) * interval '1 minute')
\*                     ELSE scheduled_at END
FailSchedule(row, t) ==
  IF row.retry_count < row.max_retries
    THEN t + Pow2(row.retry_count)
    ELSE row.scheduled_at

\* mutant: the failure branch leaves started_at as the claim set it
CompleteRow_KeepsStartedAt(row, p_success, p_error_message, t) ==
  IF p_success
    THEN [row EXCEPT !.status = "completed", !.completed_at = t]
    ELSE [row EXCEPT !.status = FailStatus(row),
                     !.retry_count = row.retry_count + 1,
                     !.error_message = p_error_message,
                     !.scheduled_at = FailSchedule(row, t)]

\* mutant: the success branch also clears error_message
CompleteRow_ClearsError(row, p_success, p_error_message, t) ==
  IF p_success
    THEN [row EXCEPT !.status = "completed", !.completed_at = t,
                     !.error_message = NoMessage]
    ELSE [row EXCEPT !.status = FailStatus(row),
                     !.retry_count = row.retry_count + 1,
                     !.error_message = p_error_message,
                     !.scheduled_at = FailSchedule(row, t),
                     !.started_at = NULL]

\* mutant: the success branch also sets retry_count = 0
CompleteRow_ClearRetries(row, p_success, p_error_message, t) ==
  IF p_success
    THEN [row EXCEPT !.status = "completed", !.completed_at = t,
                     !.retry_count = 0]
    ELSE [row EXCEPT !.status = FailStatus(row),
                     !.retry_count = row.retry_count + 1,
                     !.error_message = p_error_message,
                     !.scheduled_at = FailSchedule(row, t),
                     !.started_at = NULL]

\* The two UPDATE ... SET lists of complete_job; every right-hand side reads
\* the row as it was before the statement.
CompleteRow(row, p_success, p_error_message, t) ==
  IF p_success
    THEN [row EXCEPT !.status = "completed", !.completed_at = t]
    ELSE [row EXCEPT !.status = FailStatus(row),
                     !.retry_count = row.retry_count + 1,
                     !.error_message = p_error_message,
                     !.scheduled_at = FailSchedule(row, t),
                     !.started_at = NULL]

\* mutant: the UPDATEs without their WHERE clause
complete_job_NoWhere(p_job_id, p_success, p_error_message) ==
  /\ jobs' = [j \in DOMAIN jobs |->
                CompleteRow(jobs[j], p_success, p_error_message, now)]
  /\ ret' = Call("complete_job", p_job_id, p_success, NoJob)
  /\ UNCHANGED <<nextId, now, claimed>>

\* complete_job(p_job_id, p_success, p_error_message) RETURNS void
\* WHERE id = p_job_id matches one row or none; the function raises nothing.
complete_job(p_job_id, p_success, p_error_message) ==
  /\ jobs' = [j \in DOMAIN jobs |->
                IF j = p_job_id
                  THEN CompleteRow(jobs[j], p_success, p_error_message, now)
                  ELSE jobs[j]]
  /\ ret' = Call("complete_job", p_job_id, p_success, NoJob)
  /\ UNCHANGED <<nextId, now, claimed>>

\* mutant: a NULL completed_at counts as older than any cutoff
Deletable_NullAsOld(row, p_days_old, t) ==
  /\ row.status \in Terminal
  /\ \/ row.completed_at = NULL
     \/ row.completed_at < t - p_days_old * MinutesPerDay

\* mutant: the DELETE without its status test
Deletable_AnyStatus(row, p_days_old, t) ==
  /\ row.completed_at # NULL
  /\ row.completed_at < t - p_days_old * MinutesPerDay

\* WHERE status IN ('completed','failed')
\*   AND completed_at < now() - (p_days_old || ' days')::interval
\* A NULL completed_at makes the comparison NULL, which is not true.
Deletable(row, p_days_old, t) ==
  /\ row.status \in Terminal
  /\ row.completed_at # NULL
  /\ row.completed_at < t - p_days_old * MinutesPerDay

\* cleanup_old_jobs(p_days_old) RETURNS integer (the number of rows deleted)
cleanup_old_jobs(p_days_old) ==
  LET gone == {j \in DOMAIN jobs : Deletable(jobs[j], p_days_old, now)} IN
  /\ jobs' = [j \in DOMAIN jobs \ gone |-> jobs[j]]
  /\ ret' = Call("cleanup_old_jobs", NoJob, TRUE, Cardinality(gone))
  /\ UNCHANGED <<nextId, now, claimed>>

\* the clock advances by a minute
Tick ==
  /\ now' = now + 1
  /\ ret' = Call("tick", NoJob, TRUE, NoJob)
  /\ UNCHANGED <<jobs, nextId, claimed>>

\* the clock advances by a day
DayTick ==
  /\ now' = now + MinutesPerDay
  /\ ret' = Call("tick", NoJob, TRUE, NoJob)
  /\ UNCHANGED <<jobs, nextId, claimed>>

\* ------------------------------------------- get_next_job, step by step
\* Under READ COMMITTED the one statement of get_next_job runs in steps that
\* other transactions interleave with: the sub-select reads the rows of its
\* snapshot in ORDER BY order, FOR UPDATE SKIP LOCKED passes over a row that
\* another transaction holds locked and re-checks the WHERE clause on the
\* newest version of a row that changed since the snapshot, LIMIT 1 stops at
\* the first row locked, the UPDATE writes it, and the commit releases it.
VARIABLES
  pc,      \* worker -> "idle" | "scan" | "locked" | "done"
  snap,    \* worker -> the rows of its snapshot that match WHERE, in order
  pos,     \* worker -> the place in snap of the next row to try
  tnow,    \* worker -> now() of its transaction
  got      \* worker -> the row it locked (then returned), or NoJob

concVars == <<pc, snap, pos, tnow, got>>

\* the sequences over S without repetition that hold all of S
Orders(S) ==
  {s \in [1..Cardinality(S) -> S] : \A i, k \in DOMAIN s : i # k => s[i] # s[k]}

\* the orders ORDER BY may give the rows S of tbl (ties come in any order)
SortedOrders(tbl, S) ==
  {s \in Orders(S) : \A i, k \in DOMAIN s : i < k => ~Before(tbl[s[k]], tbl[s[i]])}

\* the rows another transaction holds locked
LockedByOther(w) == {got[v] : v \in {u \in Workers \ {w} : pc[u] = "locked"}}

\* mutant: a plain sub-select, which takes no row lock and re-checks nothing
Lockable_NoLock(w, j) == j \in DOMAIN jobs

\* FOR UPDATE SKIP LOCKED on row j: can this transaction lock it now?
Lockable(w, j) ==
  /\ j \in DOMAIN jobs
  /\ j \notin LockedByOther(w)
  /\ EligibleRow(jobs[j], tnow[w])

\* the statement starts: its snapshot and its now()
begin_claim(w) ==
  /\ pc[w] = "idle"
  /\ \E s \in SortedOrders(jobs, Eligible(jobs, now)) :
       snap' = [snap EXCEPT ![w] = s]
  /\ pos' = [pos EXCEPT ![w] = 1]
  /\ tnow' = [tnow EXCEPT ![w] = now]
  /\ got' = [got EXCEPT ![w] = NoJob]
  /\ pc' = [pc EXCEPT ![w] = "scan"]
  /\ UNCHANGED jobVars

\* mutant: FOR UPDATE NOWAIT, the statement gives up at a row it cannot lock
lock_step_GiveUp(w) ==
  /\ pc[w] = "scan"
  /\ pos[w] <= Len(snap[w])
  /\ IF Lockable(w, snap[w][pos[w]])
       THEN /\ got' = [got EXCEPT ![w] = snap[w][pos[w]]]
            /\ pc' = [pc EXCEPT ![w] = "locked"]
            /\ UNCHANGED pos
       ELSE /\ pos' = [pos EXCEPT ![w] = Len(snap[w]) + 1]
            /\ UNCHANGED <<got, pc>>
  /\ UNCHANGED <<snap, tnow, jobVars>>

\* the sub-select tries its next row: locks it, or passes over it
lock_step(w) ==
  /\ pc[w] = "scan"
  /\ pos[w] <= Len(snap[w])
  /\ IF Lockable(w, snap[w][pos[w]])
       THEN /\ got' = [got EXCEPT ![w] = snap[w][pos[w]]]
            /\ pc' = [pc EXCEPT ![w] = "locked"]
            /\ UNCHANGED pos
       ELSE /\ pos' = [pos EXCEPT ![w] = @ + 1]
            /\ UNCHANGED <<got, pc>>
  /\ UNCHANGED <<snap, tnow, jobVars>>

\* the sub-select ran out of rows: the UPDATE matches nothing, no row returned
return_none(w) ==
  /\ pc[w] = "scan"
  /\ pos[w] > Len(snap[w])
  /\ pc' = [pc EXCEPT ![w] = "done"]
  /\ ret' = Call("get_next_job", NoJob, TRUE, NoJob)
  /\ UNCHANGED <<snap, pos, tnow, got, jobs, nextId, now, claimed>>

\* the UPDATE writes the locked row, RETURNING * returns it, the commit
\* releases the lock
commit_claim(w) ==
  /\ pc[w] = "locked"
  /\ jobs' = [jobs EXCEPT ![got[w]] = ClaimRow(@, tnow[w])]
  /\ claimed' = [claimed EXCEPT ![got[w]] = @ + 1]
  /\ ret' = Call("get_next_job", got[w], TRUE, got[w])
  /\ pc' = [pc EXCEPT ![w] = "done"]
  /\ UNCHANGED <<snap, pos, tnow, got, nextId, now>>

\* the caller takes the result and is free to call again
finish(w) ==
  /\ pc[w] = "done"
  /\ pc' = [pc EXCEPT ![w] = "idle"]
  /\ snap' = [snap EXCEPT ![w] = <<>>]
  /\ pos' = [pos EXCEPT ![w] = 1]
  /\ tnow' = [tnow EXCEPT ![w] = 0]
  /\ got' = [got EXCEPT ![w] = NoJob]
  /\ UNCHANGED jobVars

\* an UPDATE of complete_job waits for a row another transaction holds locked
complete_job_conc(p_job_id, p_success, p_error_message) ==
  /\ p_job_id \notin {got[w] : w \in {u \in Workers : pc[u] = "locked"}}
  /\ complete_job(p_job_id, p_success, p_error_message)

\* ------------------------------------------------------- the worker loop
\* while true: claim -> execute -> complete; each worker on its own
VARIABLE held   \* worker -> the job it claimed and has not completed, or NoJob

worker_claim(w) ==
  /\ held[w] = NoJob
  /\ get_next_job
  /\ held' = [held EXCEPT ![w] = ret'.out]

worker_complete(w, p_success, p_error_message) ==
  /\ held[w] # NoJob
  /\ complete_job(held[w], p_success, p_error_message)
  /\ held' = [held EXCEPT ![w] = NoJob]

\* --------------------------------------------------- daily_usage_metrics
\* A row of the table: its key (date, provider, service) and accumulators.
VARIABLES
  metrics,   \* daily_usage_metrics: row id -> row, for the committed rows
  nextRow,   \* the next row id gen_random_uuid() hands out
  upc,       \* caller -> "idle" | "written": its increment_usage_metric call
  pend,      \* caller -> the write of its call that is not committed yet
  issued,    \* history: key -> the sums of the arguments of the calls returned
  calls      \* history: how many calls were started

usageVars == <<metrics, nextRow, upc, pend, issued, calls>>

Zero == [usage_count |-> 0, tokens_used |-> 0, estimated_cost_cents |-> 0, n |-> 0]

NoWrite == [key |-> <<>>, row |-> 0, args |-> <<>>, val |-> Zero]

\* the committed rows whose (date, provider, service) is k
RowsOf(k) == {r \in DOMAIN metrics : metrics[r].key = k}

\* mutant: no unique index arbitrates, nobody waits (read, add, write back)
KeyBusy_Never(c, k) == FALSE

\* UNIQUE(date, provider, service): the key is taken by a row another
\* transaction has written and not committed (an insert or a row lock); the
\* statement waits for that transaction
KeyBusy(c, k) == \E d \in UsageCallers \ {c} : upc[d] = "written" /\ pend[d].key = k

\* VALUES (p_date, p_provider, p_service, p_usage_count, p_tokens_used, p_cost_cents)
InsertedRow(k, a) ==
  [key |-> k, usage_count |-> a[1], tokens_used |-> a[2],
   estimated_cost_cents |-> a[3]]

\* mutant: DO UPDATE SET usage_count = EXCLUDED.usage_count, ... (the row is
\* overwritten by the values of the call)
UpdatedRow_Overwrite(old, a) ==
  [old EXCEPT !.usage_count = a[1],
              !.tokens_used = a[2],
              !.estimated_cost_cents = a[3]]

\* DO UPDATE SET usage_count = daily_usage_metrics.usage_count + p_usage_count, ...
UpdatedRow(old, a) ==
  [old EXCEPT !.usage_count = @ + a[1],
              !.tokens_used = @ + a[2],
              !.estimated_cost_cents = @ + a[3]]

\* v + d is a value of type integer; otherwise the addition raises
\* "integer out of range"
InRange(v, d) ==
  IF d >= 0 THEN v <= MaxInt - d ELSE v >= (-MaxInt - 1) - d

\* the call raises: its key has a row and one of the three additions of
\* DO UPDATE SET leaves the integer range
Rejected(tbl, k, a) ==
  \E r \in DOMAIN tbl :
    /\ tbl[r].key = k
    /\ \/ ~InRange(tbl[r].usage_count, a[1])
       \/ ~InRange(tbl[r].tokens_used, a[2])
       \/ ~InRange(tbl[r].estimated_cost_cents, a[3])

\* The table after increment_usage_metric(k, a) ran on table tbl with no
\* other transaction in flight: a new row if no row has the key, the row of
\* the key with the arguments added otherwise; nothing is written when the
\* call raises.  Rows are never deleted, so the new row is row number
\* Cardinality + 1.
Upserted(tbl, k, a) ==
  LET rows == {r \in DOMAIN tbl : tbl[r].key = k}
      new  == Cardinality(DOMAIN tbl) + 1
  IN  IF rows = {}
        THEN [r \in DOMAIN tbl \cup {new} |->
                IF r = new THEN InsertedRow(k, a) ELSE tbl[r]]
        ELSE IF Rejected(tbl, k, a)
          THEN tbl
          ELSE [r \in DOMAIN tbl |->
                  IF r \in rows THEN UpdatedRow(tbl[r], a) ELSE tbl[r]]

\* increment_usage_metric(...) as one step, calls one at a time
increment_usage_metric(k, a) ==
  /\ \A c \in UsageCallers : upc[c] = "idle"
  /\ metrics' = Upserted(metrics, k, a)
  /\ nextRow' = Cardinality(DOMAIN metrics') + 1
  /\ issued' = IF Rejected(metrics, k, a)
                 THEN issued
                 ELSE [issued EXCEPT ![k] =
                         [usage_count |-> @.usage_count + a[1],
                          tokens_used |-> @.tokens_used + a[2],
                          estimated_cost_cents |-> @.estimated_cost_cents + a[3],
                          n |-> @.n + 1]]
  /\ calls' = calls + 1
  /\ UNCHANGED <<upc, pend>>

\* increment_usage_metric(p_date, p_provider, p_service, p_usage_count,
\* p_tokens_used, p_cost_cents): INSERT ... ON CONFLICT ... DO UPDATE writes
\* its row: a new row when no row has the key, else the row of the key,
\* locked and read as last committed
increment_write(c, k, a) ==
  /\ upc[c] = "idle"
  /\ ~KeyBusy(c, k)
  /\ IF RowsOf(k) = {}
       THEN pend' = [pend EXCEPT ![c] =
                       [key |-> k, row |-> 0, args |-> a, val |-> InsertedRow(k, a)]]
       ELSE \E r \in RowsOf(k) :
              pend' = [pend EXCEPT ![c] =
                       [key |-> k, row |-> r, args |-> a,
                        val |-> UpdatedRow(metrics[r], a)]]
  /\ upc' = [upc EXCEPT ![c] = "written"]
  /\ calls' = calls + 1
  /\ UNCHANGED <<metrics, nextRow, issued>>

\* the transaction of the call commits: its row becomes the committed one
increment_commit(c) ==
  /\ upc[c] = "written"
  /\ IF pend[c].row = 0
       THEN /\ metrics' = [r \in DOMAIN metrics \cup {nextRow} |->
                             IF r = nextRow THEN pend[c].val ELSE metrics[r]]
            /\ nextRow' = nextRow + 1
       ELSE /\ metrics' = [metrics EXCEPT ![pend[c].row] = pend[c].val]
            /\ UNCHANGED nextRow
  /\ issued' = [issued EXCEPT ![pend[c].key] =
                  [usage_count |-> @.usage_count + pend[c].args[1],
                   tokens_used |-> @.tokens_used + pend[c].args[2],
                   estimated_cost_cents |-> @.estimated_cost_cents + pend[c].args[3],
                   n |-> @.n + 1]]
  /\ pend' = [pend EXCEPT ![c] = NoWrite]
  /\ upc' = [upc EXCEPT ![c] = "idle"]
  /\ UNCHANGED calls

vars == <<jobs, nextId, now, claimed, ret, pc, snap, pos, tnow, got, held,
         metrics, nextRow, upc, pend, issued, calls>>

\* ---------------------------------------------------------- specification
InitJobs ==
  /\ jobs = <<>>
  /\ nextId = 1
  /\ now = 0
  /\ claimed = <<>>
  /\ ret = Call("init", NoJob, TRUE, NoJob)

InitWorkers ==
  /\ pc = [w \in Workers |-> "idle"]
  /\ snap = [w \in Workers |-> <<>>]
  /\ pos = [w \in Workers |-> 1]
  /\ tnow = [w \in Workers |-> 0]
  /\ got = [w \in Workers |-> NoJob]
  /\ held = [w \in Workers |-> NoJob]

InitUsage ==
  /\ metrics = <<>>
  /\ nextRow = 1
  /\ upc = [c \in UsageCallers |-> "idle"]
  /\ pend = [c \in UsageCallers |-> NoWrite]
  /\ issued = [k \in UsageKeys |-> Zero]
  /\ calls = 0

Init == InitJobs /\ InitWorkers /\ InitUsage

\* the calls, with their arguments drawn from the input sets
Enqueue ==
  /\ \E t \in JobTypes, p \in Payloads, pr \in Priorities, d \in Delays :
       enqueue_job(t, p, pr, now + d)
  /\ UNCHANGED <<concVars, held, usageVars>>

Insert ==
  /\ \E d \in Delays, m \in MaxRetriesValues :
       insert_job(DefaultPriority, now + d, m)
  /\ UNCHANGED <<concVars, held, usageVars>>

GetNext ==
  /\ get_next_job
  /\ UNCHANGED <<concVars, held, usageVars>>

Complete ==
  /\ \E j \in JobIds, s \in BOOLEAN, m \in Messages :
       /\ j \in DOMAIN jobs => jobs[j].retry_count < MaxRetryCount
       /\ complete_job(j, s, m)
  /\ UNCHANGED <<concVars, held, usageVars>>

Cleanup ==
  /\ \E d \in DaysOld : cleanup_old_jobs(d)
  /\ UNCHANGED <<concVars, held, usageVars>>

Clock ==
  /\ now < MaxTime
  /\ Tick
  /\ UNCHANGED <<concVars, held, usageVars>>

\* Spec: the calls one at a time, in any order, with any arguments
Next ==
  \/ Enqueue
  \/ Insert
  \/ GetNext
  \/ Complete
  \/ Cleanup
  \/ Clock

Spec == Init /\ [][Next]_vars


\* WorkerSpec: the worker loop.  Every complete_job is the one call a worker
\* makes for the job its get_next_job returned.
InsertW ==
  /\ \E m \in WorkerMaxRetries : insert_job(DefaultPriority, now, m)
  /\ UNCHANGED <<concVars, held, usageVars>>

EnqueueW ==
  /\ enqueue_job("email", "{}", DefaultPriority, now)
  /\ UNCHANGED <<concVars, held, usageVars>>

WorkerClaim ==
  /\ \E w \in Workers : worker_claim(w)
  /\ UNCHANGED <<concVars, usageVars>>

WorkerComplete ==
  /\ \E w \in Workers, s \in BOOLEAN, m \in Messages : worker_complete(w, s, m)
  /\ UNCHANGED <<concVars, usageVars>>

ClockW ==
  /\ now < MaxWorkerTime
  /\ Tick
  /\ UNCHANGED <<concVars, held, usageVars>>

WorkerNext ==
  \/ InsertW
  \/ EnqueueW
  \/ WorkerClaim
  \/ WorkerComplete
  \/ Cleanup
  \/ ClockW

WorkerSpec == Init /\ [][WorkerNext]_vars

\* ConcSpec: several callers of get_next_job at once, each call in steps,
\* among the other calls.
EnqueueC ==
  /\ \E pr \in Priorities : enqueue_job("email", "{}", pr, now)
  /\ UNCHANGED <<concVars, held, usageVars>>

BeginClaim ==
  /\ \E w \in Workers : begin_claim(w)
  /\ UNCHANGED <<held, usageVars>>

LockStep ==
  /\ \E w \in Workers : lock_step(w)
  /\ UNCHANGED <<held, usageVars>>

ReturnNone ==
  /\ \E w \in Workers : return_none(w)
  /\ UNCHANGED <<held, usageVars>>

CommitClaim ==
  /\ \E w \in Workers : commit_claim(w)
  /\ UNCHANGED <<held, usageVars>>

Finish ==
  /\ \E w \in Workers : finish(w)
  /\ UNCHANGED <<held, usageVars>>

CompleteC ==
  /\ \E j \in JobIds, m \in Messages :
       /\ j \in DOMAIN jobs => jobs[j].retry_count < MaxConcRetryCount
       /\ complete_job_conc(j, FALSE, m)
  /\ UNCHANGED <<concVars, held, usageVars>>

ClockC ==
  /\ now < MaxConcTime
  /\ Tick
  /\ UNCHANGED <<concVars, held, usageVars>>

ConcNext ==
  \/ EnqueueC
  \/ BeginClaim
  \/ LockStep
  \/ ReturnNone
  \/ CommitClaim
  \/ Finish
  \/ CompleteC
  \/ ClockC

ConcSpec == Init /\ [][ConcNext]_vars

\* ClaimSpec: concurrent get_next_job calls, one per caller, and no
\* complete_job among them.
ClaimNext ==
  \/ EnqueueC
  \/ BeginClaim
  \/ LockStep
  \/ ReturnNone
  \/ CommitClaim
  \/ ClockC

ClaimSpec == Init /\ [][ClaimNext]_vars

\* UsageSpec: concurrent increment_usage_metric calls.
IncrementWrite ==
  /\ calls < MaxCalls
  /\ \E c \in UsageCallers, k \in UsageKeys, a \in UsageArgs : increment_write(c, k, a)
  /\ UNCHANGED <<jobVars, concVars, held>>

IncrementCommit ==
  /\ \E c \in UsageCallers : increment_commit(c)
  /\ UNCHANGED <<jobVars, concVars, held>>

UsageNext ==
  \/ IncrementWrite
  \/ IncrementCommit

UsageSpec == Init /\ [][UsageNext]_vars

\* RetrySpec: the calls one at a time on rows of every small max_retries, so
\* that complete_job is called on rows that are failed already.
RetryNext ==
  \/ InsertW
  \/ GetNext
  \/ Complete
  \/ Cleanup
  \/ Clock

RetrySpec == Init /\ [][RetryNext]_vars

\* PurgeSpec: the calls one at a time over days, so that rows grow older
\* than the retention window of cleanup_old_jobs.
DayClock ==
  /\ now < MaxDays * MinutesPerDay
  /\ DayTick
  /\ UNCHANGED <<concVars, held, usageVars>>

Purge ==
  /\ \E d \in PurgeDays : cleanup_old_jobs(d)
  /\ UNCHANGED <<concVars, held, usageVars>>

PurgeNext ==
  \/ EnqueueW
  \/ GetNext
  \/ Complete
  \/ Purge
  \/ DayClock

PurgeSpec == Init /\ [][PurgeNext]_vars

\* LiveSpec: the worker loop under fairness.  The clock advances while a
\* pending row waits for its scheduled_at, some worker keeps calling
\* get_next_job, and a worker that holds a job calls complete_job for it.
ClockL ==
  /\ \E j \in DOMAIN jobs :
       jobs[j].status = "pending" /\ jobs[j].scheduled_at > now
  /\ Tick
  /\ UNCHANGED <<concVars, held, usageVars>>

WorkerCompletes(w) ==
  /\ \E s \in BOOLEAN, m \in Messages : worker_complete(w, s, m)
  /\ UNCHANGED <<concVars, usageVars>>

LiveNext ==
  \/ InsertW
  \/ EnqueueW
  \/ WorkerClaim
  \/ WorkerComplete
  \/ ClockL

LiveSpec ==
  /\ Init
  /\ [][LiveNext]_vars
  /\ WF_vars(ClockL)
  /\ WF_vars(WorkerClaim)
  /\ \A w \in Workers : WF_vars(WorkerCompletes(w))

\* StuckSpec: the job queue calls and the usage calls, one call at a time;
\* increment_usage_metric is called by one caller with its default counts.
StuckCaller == "c1"

IncrementS ==
  /\ calls < MaxStuckCalls
  /\ \E k \in UsageKeys : increment_write(StuckCaller, k, DefaultUsageArgs)
  /\ UNCHANGED <<jobVars, concVars, held>>

StuckNext ==
  \/ EnqueueW
  \/ GetNext
  \/ Complete
  \/ Cleanup
  \/ Clock
  \/ IncrementS
  \/ IncrementCommit

StuckSpec == Init /\ [][StuckNext]_vars

\* SignedSpec: increment_usage_metric called with integers of either sign;
\* the function tests none of its arguments.
IncrementSigned ==
  /\ calls < MaxCalls
  /\ \E c \in UsageCallers, k \in UsageKeys, a \in SignedUsageArgs :
       increment_write(c, k, a)
  /\ UNCHANGED <<jobVars, concVars, held>>

SignedNext ==
  \/ IncrementSigned
  \/ IncrementCommit

SignedSpec == Init /\ [][SignedNext]_vars

\* RangeSpec: increment_usage_metric calls one at a time, in any order, with
\* arguments that can take an accumulator to the end of the integer range.
IncrementSeq ==
  /\ calls < MaxCalls
  /\ \E k \in UsageKeys, a \in RangeUsageArgs : increment_usage_metric(k, a)
  /\ UNCHANGED <<jobVars, concVars, held>>

RangeNext == IncrementSeq

RangeSpec == Init /\ [][RangeNext]_vars

\* ------------------------------------------------------------------ claims
\* the step is a call of complete_job(j, ...) that reports failure / success
CompletesFailed(j) ==
  ret'.op = "complete_job" /\ ret'.id = j /\ ~ret'.ok

\* the step is a get_next_job that returns row j
Returns(j) ==
  j \in DOMAIN claimed /\ j \in DOMAIN claimed' /\ claimed'[j] = claimed[j] + 1

\* C3 (as claimed): complete_job on a row that is already completed or failed
\* leaves the row's status and retry_count as they were.
C3_TerminalUntouched ==
  [][\A j \in DOMAIN jobs :
       (ret'.op = "complete_job" /\ ret'.id = j /\ jobs[j].status \in Terminal)
         => /\ jobs'[j].status = jobs[j].status
            /\ jobs'[j].retry_count = jobs[j].retry_count]_vars

\* C4 (amended): complete_job(id, false) on a processing row adds one to
\* retry_count, and the new status is failed exactly when retry_count was
\* already >= max_retries before the call (incremented retry_count >
\* max_retries); otherwise it is pending.
C4_RetryThreshold ==
  [][\A j \in DOMAIN jobs :
       (CompletesFailed(j) /\ jobs[j].status = "processing")
         => /\ jobs'[j].retry_count = jobs[j].retry_count + 1
            /\ jobs'[j].status \in {"failed", "pending"}
            /\ jobs'[j].status = "failed"
                 <=> jobs'[j].retry_count > jobs[j].max_retries]_vars

\* C4 (as claimed): ... the new status is failed exactly when the incremented
\* retry_count is >= max_retries.
C4_AsClaimed ==
  [][\A j \in DOMAIN jobs :
       (CompletesFailed(j) /\ jobs[j].status = "processing")
         => /\ jobs'[j].retry_count = jobs[j].retry_count + 1
            /\ jobs'[j].status \in {"failed", "pending"}
            /\ jobs'[j].status = "failed"
                 <=> jobs'[j].retry_count >= jobs[j].max_retries]_vars

\* a row claimed twice and failed twice: the second failure made it failed
C4_Witness ==
  \E j \in DOMAIN jobs :
    /\ ret = Call("complete_job", j, FALSE, NoJob)
    /\ jobs[j].status = "failed"
    /\ jobs[j].retry_count = jobs[j].max_retries + 1
    /\ claimed[j] = jobs[j].retry_count

\* the last call was complete_job(j, false) and it left row j pending
Requeued(j) ==
  /\ j \in DOMAIN jobs
  /\ ret.op = "complete_job" /\ ret.id = j /\ ~ret.ok
  /\ jobs[j].status = "pending"

\* C6 (amended): a failure that re-queues a job sets scheduled_at to
\* now + 2^(n-1) minutes, n the retry_count after the increment: 1 minute
\* after the first failure, 2 minutes after the second.
C6_Backoff ==
  \A j \in DOMAIN jobs :
    Requeued(j) =>
      /\ jobs[j].retry_count >= 1
      /\ jobs[j].scheduled_at = now + Pow2(jobs[j].retry_count - 1)
      /\ jobs[j].retry_count = 1 => jobs[j].scheduled_at = now + 1
      /\ jobs[j].retry_count = 2 => jobs[j].scheduled_at = now + 2

\* C6 (as claimed): ... sets scheduled_at to now + 2^n minutes: 2 minutes
\* after the first failure, 4 after the second.
C6_AsClaimed ==
  \A j \in DOMAIN jobs :
    Requeued(j) => jobs[j].scheduled_at = now + Pow2(jobs[j].retry_count)

\* a claimed job re-queued by its second failure
C6_Witness ==
  \E j \in DOMAIN jobs :
    Requeued(j) /\ jobs[j].retry_count = 2 /\ claimed[j] >= 1

\* C8: a get_next_job that returns row j returns a row of the greatest
\* priority among the eligible rows, and no eligible row of that priority
\* has a strictly earlier scheduled_at (callers one at a time).
C8_AgeTieBreak ==
  [][\A j \in DOMAIN jobs :
       Returns(j) =>
         \A k \in Eligible(jobs, now) :
           /\ jobs[k].priority <= jobs[j].priority
           /\ jobs[k].priority = jobs[j].priority
                => jobs[k].scheduled_at >= jobs[j].scheduled_at]_vars

\* row j was returned while row k, of the same priority, eligible and
\* scheduled strictly later, stayed pending
C8_Witness ==
  \E j, k \in DOMAIN jobs :
    /\ ret = Call("get_next_job", j, TRUE, j)
    /\ jobs[j].status = "processing"
    /\ EligibleRow(jobs[k], now)
    /\ jobs[k].priority = jobs[j].priority
    /\ jobs[k].scheduled_at > jobs[j].scheduled_at

\* C10 (as claimed): every row with status processing has started_at set and
\* completed_at null.
C10_ProcessingInvariant ==
  \A j \in DOMAIN jobs :
    jobs[j].status = "processing"
      => jobs[j].started_at # NULL /\ jobs[j].completed_at = NULL


\* the callers whose get_next_job has locked or returned row j
Holders(j) == {w \in Workers : pc[w] \in {"locked", "done"} /\ got[w] = j}

\* the rows in the snapshot of caller w
SnapRows(w) == {snap[w][i] : i \in DOMAIN snap[w]}

RECURSIVE SumClaimed(_)
SumClaimed(S) ==
  IF S = {} THEN 0
  ELSE LET j == CHOOSE x \in S : TRUE IN claimed[j] + SumClaimed(S \ {j})

\* C1: with concurrent get_next_job calls and no complete_job, no row is
\* returned twice or to two callers, no more rows are returned than the queue
\* holds, and of the callers that saw one eligible row in the queue exactly
\* one gets it: each of the others gets no row, and only because another
\* caller holds the row.
C1_AtMostOneClaim ==
  /\ \A j \in DOMAIN jobs :
       /\ claimed[j] <= 1
       /\ Cardinality(Holders(j)) <= 1
       /\ claimed[j] = 1 => jobs[j].status = "processing"
  /\ SumClaimed(DOMAIN jobs) <= Cardinality(DOMAIN jobs)
  /\ \A j \in DOMAIN jobs, w \in Workers :
       (pc[w] = "done" /\ snap[w] = <<j>>)
       => \/ got[w] = j
          \/ got[w] = NoJob /\ Holders(j) \ {w} # {}

\* two callers that both saw the one eligible row have both returned
C1_Witness ==
  \E j \in DOMAIN jobs :
    /\ \A w \in Workers : pc[w] = "done" /\ snap[w] = <<j>>
    /\ claimed[j] = 1

\* the call of caller w returns row j in this step
ReturnsTo(w, j) ==
  pc[w] = "locked" /\ pc'[w] = "done" /\ got[w] = j /\ Returns(j)

\* the rows that matched WHERE when the call of w began and still match
StillEligible(w) == SnapRows(w) \cap Eligible(jobs, tnow[w])

\* C7 (as claimed): the row get_next_job returns has the greatest priority
\* among all rows pending with scheduled_at <= now at the moment of the call.
C7_AsClaimed ==
  [][\A w \in Workers, j \in DOMAIN jobs :
       ReturnsTo(w, j) =>
         \A k \in StillEligible(w) : jobs[k].priority <= jobs[j].priority]_vars

\* C7 (amended): the row get_next_job returns has the greatest priority among
\* the rows pending with scheduled_at <= now at the moment of the call that
\* no other get_next_job call in flight holds locked.
C7_PriorityOrdering ==
  [][\A w \in Workers, j \in DOMAIN jobs :
       ReturnsTo(w, j) =>
         \A k \in StillEligible(w) \ LockedByOther(w) :
           jobs[k].priority <= jobs[j].priority]_vars

\* a caller was returned the row of greater priority while a row of smaller
\* priority that it saw stays pending
C7_Witness ==
  \E w \in Workers, j, k \in DOMAIN jobs :
    /\ pc[w] = "done" /\ got[w] = j
    /\ jobs[j].status = "processing"
    /\ k \in SnapRows(w)
    /\ EligibleRow(jobs[k], tnow[w])
    /\ jobs[k].priority < jobs[j].priority

\* C9: a row get_next_job returns was, when it was claimed, pending with
\* scheduled_at <= now; a call that returns no row claims none.
C9_Eligibility ==
  [][/\ \A j \in DOMAIN claimed :
          Returns(j) =>
            /\ j \in DOMAIN jobs
            /\ jobs[j].status = "pending"
            /\ jobs[j].scheduled_at <= now
            /\ ret' = Call("get_next_job", j, TRUE, j)
     /\ (ret'.op = "get_next_job" /\ ret'.out # NoJob /\ jobs' # jobs)
          => Returns(ret'.out)]_vars

\* a row was returned while rows of each other kind were in the queue: one
\* scheduled in the future that sorts before it
C9_Witness ==
  \E j, k \in DOMAIN jobs :
    /\ ret = Call("get_next_job", j, TRUE, j)
    /\ jobs[j].status = "processing" /\ jobs[j].started_at = now
    /\ jobs[k].status = "pending"
    /\ jobs[k].scheduled_at > now
    /\ jobs[k].priority > jobs[j].priority

\* C5 (amended): in the worker loop a job that became failed has
\* retry_count = max_retries + 1 and was claimed max_retries + 1 times, and a
\* job whose retry_count passed max_retries is failed.
C5_ExhaustedRetries ==
  \A j \in DOMAIN jobs :
    /\ jobs[j].retry_count <= jobs[j].max_retries + 1
    /\ jobs[j].status = "failed" <=> jobs[j].retry_count = jobs[j].max_retries + 1
    /\ jobs[j].status = "failed" => claimed[j] = jobs[j].max_retries + 1

\* C5 (as claimed): a job that became failed has retry_count = max_retries,
\* and a job with max_retries = 1 is failed after one failing cycle.
C5_AsClaimed ==
  \A j \in DOMAIN jobs :
    /\ (jobs[j].status = "failed" /\ jobs[j].max_retries >= 1)
         => jobs[j].retry_count = jobs[j].max_retries
    /\ ( /\ jobs[j].max_retries = 1
         /\ jobs[j].retry_count = 1
         /\ jobs[j].status \notin {"processing", "completed"} )
       => jobs[j].status = "failed"

\* a job with max_retries = 1 failed by its second failing cycle
C5_Witness ==
  \E j \in DOMAIN jobs :
    /\ jobs[j].max_retries = 1
    /\ jobs[j].status = "failed"
    /\ jobs[j].retry_count = 2
    /\ claimed[j] = 2
    /\ ret = Call("complete_job", j, FALSE, NoJob)

\* the calls returned for key k left one row, holding the sums of their arguments
Accumulated(k) ==
  \E r \in DOMAIN metrics :
    /\ RowsOf(k) = {r}
    /\ metrics[r].usage_count = issued[k].usage_count
    /\ metrics[r].tokens_used = issued[k].tokens_used
    /\ metrics[r].estimated_cost_cents = issued[k].estimated_cost_cents

\* C2: whatever the interleaving of the increment_usage_metric calls on a
\* key, once calls on it have returned there is one row for the key and each
\* accumulator is the sum of the arguments of the calls returned (usage_count
\* is their number when each passes 1); before, there is none.
C2_NoLostIncrements ==
  \A k \in UsageKeys :
    /\ issued[k].n = 0 => RowsOf(k) = {}
    /\ issued[k].n > 0 => Accumulated(k) /\ issued[k].usage_count = issued[k].n

\* three calls on one key, by three callers, have all returned
C2_Witness ==
  \E k \in UsageKeys :
    /\ issued[k].n = 3
    /\ issued[k].tokens_used > 0
    /\ Accumulated(k)
    /\ \A c \in UsageCallers : upc[c] = "idle"

\* C11 (as claimed): a row becomes completed or failed only from processing,
\* complete_job on a pending row leaves its status and retry_count as they
\* were, and every completed row was returned by get_next_job at least once.
C11_OnlyFromProcessing ==
  [][\A j \in DOMAIN jobs \cap DOMAIN jobs' :
       /\ (jobs'[j].status \in Terminal /\ jobs'[j].status # jobs[j].status)
            => jobs[j].status = "processing"
       /\ (ret'.op = "complete_job" /\ ret'.id = j /\ jobs[j].status = "pending")
            => /\ jobs'[j].status = jobs[j].status
               /\ jobs'[j].retry_count = jobs[j].retry_count
       /\ jobs'[j].status = "completed" => claimed'[j] >= 1]_vars

\* the row is failed, or was failed and then completed: its retries are used up
Exhausted(row) ==
  row.status \in {"failed", "completed"} /\ row.retry_count > row.max_retries

\* C12: a failed row has used up its retries; from then on, whatever the
\* calls (complete_job on it included), it is failed or completed and never
\* pending, its scheduled_at stays as it was, and no get_next_job returns it.
C12_FailedNeverClaimable ==
  [][\A j \in DOMAIN jobs :
       /\ jobs[j].status = "failed" => Exhausted(jobs[j])
       /\ (Exhausted(jobs[j]) /\ j \in DOMAIN jobs')
            => /\ Exhausted(jobs'[j])
               /\ jobs'[j].scheduled_at = jobs[j].scheduled_at
               /\ ~Returns(j)]_vars

\* a failed row was completed, failed again, came due, and a get_next_job
\* returned no row
C12_Witness ==
  \E j \in DOMAIN jobs :
    /\ jobs[j].status = "failed"
    /\ jobs[j].retry_count = jobs[j].max_retries + 2
    /\ jobs[j].completed_at # NULL
    /\ jobs[j].scheduled_at <= now
    /\ ret = Call("get_next_job", NoJob, TRUE, NoJob)

\* C13: in the worker loop a job with max_retries = 3 that has failed k <= 2
\* times is never failed; while pending it was claimed k times, and once
\* its next attempt succeeds it is completed with retry_count = k after
\* k + 1 claim/complete cycles, and no worker holds it.
C13_FailThenSucceed ==
  \A j \in DOMAIN jobs :
    (jobs[j].max_retries = DefaultMaxRetries /\ jobs[j].retry_count <= 2)
    => /\ jobs[j].status # "failed"
       /\ jobs[j].status = "pending" => claimed[j] = jobs[j].retry_count
       /\ jobs[j].status = "processing" => claimed[j] = jobs[j].retry_count + 1
       /\ jobs[j].status = "completed"
            => /\ claimed[j] = jobs[j].retry_count + 1
               /\ \A w \in Workers : held[w] # j

\* a job with max_retries = 3 failed twice and succeeded in its third cycle
C13_Witness ==
  \E j \in DOMAIN jobs :
    /\ jobs[j].max_retries = DefaultMaxRetries
    /\ jobs[j].status = "completed"
    /\ jobs[j].retry_count = 2
    /\ claimed[j] = 3
    /\ ret = Call("complete_job", j, TRUE, NoJob)

\* C14: in the worker loop every failure that re-queues a job sets a
\* scheduled_at strictly later than the one the job had (the one the retry
\* before it set) and later than now; the failure that makes the job failed
\* leaves scheduled_at as it was.
C14_BackoffMonotone ==
  [][\A j \in DOMAIN jobs \cap DOMAIN jobs' :
       CompletesFailed(j) =>
         /\ jobs'[j].status = "pending"
              => /\ jobs'[j].scheduled_at > jobs[j].scheduled_at
                 /\ jobs'[j].scheduled_at > now
         /\ jobs'[j].status = "failed"
              => jobs'[j].scheduled_at = jobs[j].scheduled_at]_vars

\* a job re-queued by its second failing cycle, two minutes ahead
C14_Witness ==
  \E j \in DOMAIN jobs :
    /\ Requeued(j)
    /\ jobs[j].retry_count = 2
    /\ claimed[j] = 2
    /\ jobs[j].scheduled_at = now + 2
    /\ \A w \in Workers : held[w] # j

\* the rows the step removes from the queue
Removed == DOMAIN jobs \ DOMAIN jobs'

\* C15: rows leave the queue only in a cleanup_old_jobs(d) call, which
\* reports their number; each row removed was completed or failed with
\* completed_at earlier than now - d days; a pending or processing row is
\* never removed, whatever its age.
C15_DeletionScope ==
  [][/\ Removed # {}
          => ret'.op = "cleanup_old_jobs" /\ ret'.out = Cardinality(Removed)
     /\ \A d \in PurgeDays :
          cleanup_old_jobs(d) =>
            \A j \in Removed :
              /\ jobs[j].status \in Terminal
              /\ jobs[j].completed_at # NULL
              /\ jobs[j].completed_at < now - d * MinutesPerDay
     /\ \A j \in DOMAIN jobs :
          jobs[j].status \in {"pending", "processing"} => j \notin Removed]_vars

\* cleanup_old_jobs(1) removed one row on day 2 and kept a completed row
\* that a window of 0 days would have removed
C15_Witness ==
  \E k \in DOMAIN jobs :
    /\ ret = Call("cleanup_old_jobs", NoJob, TRUE, 1)
    /\ now = 2 * MinutesPerDay
    /\ jobs[k].status = "completed"
    /\ jobs[k].completed_at < now
    /\ jobs[k].completed_at >= now - MinutesPerDay

\* C16: under fairness every job in the queue eventually is completed or
\* failed, and no job fails more than max_retries + 1 times.
C16_Progress ==
  /\ \A j \in JobIds :
       (j \in DOMAIN jobs) ~> (j \in DOMAIN jobs /\ jobs[j].status \in Terminal)
  /\ [](\A j \in DOMAIN jobs : jobs[j].retry_count <= jobs[j].max_retries + 1)

\* every job reached a terminal state, one of them failed after using up
\* its two retries
C16_Witness ==
  /\ nextId \notin JobIds
  /\ \A j \in DOMAIN jobs : jobs[j].status \in Terminal
  /\ \E j \in DOMAIN jobs :
       /\ jobs[j].status = "failed"
       /\ jobs[j].max_retries = 2
       /\ claimed[j] = 3

\* the step is a complete_job call on row j
CompletesJob(j) ==
  \E s \in BOOLEAN, m \in Messages : complete_job(j, s, m)

\* C17: a processing row stays in the queue with every field as it was, and
\* is returned by no get_next_job, in every step that is not a complete_job
\* call on that row: enqueue_job, get_next_job, cleanup_old_jobs,
\* increment_usage_metric, complete_job on another row, the clock.
C17_StuckProcessing ==
  [][\A j \in DOMAIN jobs :
       (jobs[j].status = "processing" /\ ~CompletesJob(j))
         => /\ j \in DOMAIN jobs'
            /\ jobs'[j] = jobs[j]
            /\ ~Returns(j)]_vars

\* a row claimed a minute ago is still processing after another job was
\* enqueued, claimed and completed, usage was recorded and cleanup ran
C17_Witness ==
  \E j, k \in DOMAIN jobs :
    /\ jobs[j].status = "processing"
    /\ jobs[j].started_at < now
    /\ claimed[j] = 1
    /\ k # j /\ claimed[k] = 1 /\ jobs[k].status = "completed"
    /\ DOMAIN metrics # {}
    /\ ret.op = "cleanup_old_jobs"

\* C18: in every step the retry_count of every row that stays in the queue
\* is at least what it was.
C18_RetryCountMonotone ==
  [][\A j \in DOMAIN jobs \cap DOMAIN jobs' :
       jobs'[j].retry_count >= jobs[j].retry_count]_vars

\* a row that was claimed and failed was claimed again and completed,
\* retry_count kept
C18_Witness ==
  \E j \in DOMAIN jobs :
    /\ ret = Call("complete_job", j, TRUE, NoJob)
    /\ jobs[j].status = "completed"
    /\ jobs[j].retry_count = 1
    /\ claimed[j] = 2

\* the step adds row id, as enqueued with these arguments, and nothing else
Added(id, type, payload, priority, scheduled) ==
  /\ id \notin DOMAIN jobs
  /\ DOMAIN jobs' = DOMAIN jobs \cup {id}
  /\ jobs'[id].job_type = type
  /\ jobs'[id].payload = payload
  /\ jobs'[id].status = "pending"
  /\ jobs'[id].priority = priority
  /\ jobs'[id].scheduled_at = scheduled
  /\ jobs'[id].retry_count = 0
  /\ jobs'[id].started_at = NULL
  /\ jobs'[id].completed_at = NULL
  /\ jobs'[id].error_message = NoMessage
  /\ \A j \in DOMAIN jobs : jobs'[j] = jobs[j]

\* C20: enqueue_job adds one row under the id it returns, an id no row in
\* the queue has: pending, retry_count 0, started_at, completed_at and
\* error_message null, with the priority and scheduled_at passed (5 and now
\* when omitted); every row that was in the queue is as it was.
C20_EnqueueAddsOne ==
  [][/\ \A t \in JobTypes, p \in Payloads, pr \in Priorities, d \in Delays :
          enqueue_job(t, p, pr, now + d) => Added(ret'.out, t, p, pr, now + d)
     /\ \A t \in JobTypes :
          enqueue_job_default(t) => Added(ret'.out, t, "{}", 5, now)]_vars

\* a second job was enqueued with priority 10 for a minute from now, next
\* to a job being processed
C20_Witness ==
  \E j, k \in DOMAIN jobs :
    /\ ret = Call("enqueue_job", j, TRUE, j)
    /\ jobs[j].status = "pending"
    /\ jobs[j].priority = 10
    /\ jobs[j].scheduled_at = now + 1
    /\ claimed[j] = 0
    /\ k # j /\ jobs[k].status = "processing"

\* C19 (as claimed): whatever integers the increment_usage_metric calls
\* pass, a row of daily_usage_metrics stays in the table under its key and
\* none of usage_count, tokens_used, estimated_cost_cents ever decreases.
C19_AccumulatorsMonotone ==
  [][\A r \in DOMAIN metrics :
       /\ r \in DOMAIN metrics'
       /\ metrics'[r].key = metrics[r].key
       /\ metrics'[r].usage_count >= metrics[r].usage_count
       /\ metrics'[r].tokens_used >= metrics[r].tokens_used
       /\ metrics'[r].estimated_cost_cents >= metrics[r].estimated_cost_cents]_vars

\* no row is pending with scheduled_at <= now
NothingDue ==
  \A j \in DOMAIN jobs :
    ~(jobs[j].status = "pending" /\ jobs[j].scheduled_at <= now)

\* C21: a get_next_job called when no row is pending with scheduled_at <= now
\* returns no row and leaves every row of the queue as it was.
C21_EmptyClaim ==
  [][(get_next_job /\ NothingDue)
       => /\ ret' = Call("get_next_job", NoJob, TRUE, NoJob)
          /\ jobs' = jobs
          /\ claimed' = claimed]_vars

\* get_next_job returned no row from a queue that holds a pending row
\* scheduled later than now and a processing row
C21_Witness ==
  \E j, k \in DOMAIN jobs :
    /\ ret = Call("get_next_job", NoJob, TRUE, NoJob)
    /\ jobs[j].status = "pending" /\ jobs[j].scheduled_at > now
    /\ jobs[k].status = "processing"

\* C22: a get_next_job that returns row j sets its status to processing and
\* its started_at to now, leaves its other columns as they were, and leaves
\* every other row of the queue and every row of daily_usage_metrics as
\* they were.
C22_ClaimFrame ==
  [][\A j \in DOMAIN jobs :
       Returns(j) =>
         /\ DOMAIN jobs' = DOMAIN jobs
         /\ jobs'[j].status = "processing"
         /\ jobs'[j].started_at = now
         /\ jobs'[j].priority = jobs[j].priority
         /\ jobs'[j].payload = jobs[j].payload
         /\ jobs'[j].job_type = jobs[j].job_type
         /\ jobs'[j].scheduled_at = jobs[j].scheduled_at
         /\ jobs'[j].retry_count = jobs[j].retry_count
         /\ jobs'[j].max_retries = jobs[j].max_retries
         /\ jobs'[j].error_message = jobs[j].error_message
         /\ jobs'[j].completed_at = jobs[j].completed_at
         /\ \A k \in DOMAIN jobs \ {j} : jobs'[k] = jobs[k]
         /\ metrics' = metrics]_vars

\* a row that failed once was returned again, its error_message and
\* retry_count kept, next to another row and a usage record
C22_Witness ==
  \E j, k \in DOMAIN jobs :
    /\ ret = Call("get_next_job", j, TRUE, j)
    /\ jobs[j].status = "processing" /\ jobs[j].started_at = now
    /\ jobs[j].retry_count = 1
    /\ jobs[j].error_message = "boom"
    /\ k # j
    /\ DOMAIN metrics # {}

\* C23: complete_job(j, false, m) on a processing row sets started_at to
\* null and error_message to m and adds one to retry_count, whether the row
\* becomes pending or failed; priority, payload, job_type, max_retries and
\* completed_at of the row and every other row stay as they were.
C23_FailureEffects ==
  [][\A j \in DOMAIN jobs, m \in Messages :
       (complete_job(j, FALSE, m) /\ jobs[j].status = "processing")
         => /\ DOMAIN jobs' = DOMAIN jobs
            /\ jobs'[j].status \in {"pending", "failed"}
            /\ jobs'[j].started_at = NULL
            /\ jobs'[j].error_message = m
            /\ jobs'[j].retry_count = jobs[j].retry_count + 1
            /\ jobs'[j].priority = jobs[j].priority
            /\ jobs'[j].payload = jobs[j].payload
            /\ jobs'[j].job_type = jobs[j].job_type
            /\ jobs'[j].max_retries = jobs[j].max_retries
            /\ jobs'[j].completed_at = jobs[j].completed_at
            /\ \A k \in DOMAIN jobs \ {j} : jobs'[k] = jobs[k]]_vars

\* one claimed row was re-queued by a failure and another claimed row was
\* made failed by the last call, both with started_at null and the message
C23_Witness ==
  \E j, k \in DOMAIN jobs :
    /\ ret = Call("complete_job", j, FALSE, NoJob)
    /\ jobs[j].status = "failed" /\ claimed[j] = jobs[j].retry_count
    /\ jobs[j].started_at = NULL /\ jobs[j].error_message = "boom"
    /\ jobs[k].status = "pending" /\ claimed[k] = 1 /\ jobs[k].retry_count = 1
    /\ jobs[k].started_at = NULL /\ jobs[k].error_message = "boom"

\* C24: a job that was re-queued by a failure is not returned before its
\* new scheduled_at: while that time is ahead no get_next_job has returned
\* it since the failure and no worker holds it, and when it is processing
\* again it was claimed at or after its scheduled_at.
C24_RetryDelay ==
  \A j \in DOMAIN jobs :
    jobs[j].retry_count >= 1 =>
      /\ jobs[j].status = "processing"
           => jobs[j].started_at >= jobs[j].scheduled_at
      /\ (jobs[j].status = "pending" /\ jobs[j].scheduled_at > now)
           => /\ claimed[j] = jobs[j].retry_count
              /\ \A w \in Workers : held[w] # j

\* a job re-queued twice was claimed a third time, once its two-minute
\* delay had passed
C24_Witness ==
  \E j \in DOMAIN jobs, w \in Workers :
    /\ jobs[j].status = "processing"
    /\ jobs[j].retry_count = 2
    /\ claimed[j] = 3
    /\ held[w] = j
    /\ jobs[j].started_at = jobs[j].scheduled_at
    /\ jobs[j].started_at = now

\* the step is a complete_job(j, true) call
CompletesSucceeded(j) ==
  \E m \in Messages : complete_job(j, TRUE, m)

\* C25: a new row has completed_at null, and a row with completed_at null
\* stays in the queue with completed_at null in every step that is not a
\* complete_job(j, true) on it: a job that became failed by failing attempts
\* alone is never removed by cleanup_old_jobs.
C25_FailedNotReaped ==
  [][/\ \A j \in DOMAIN jobs' \ DOMAIN jobs : jobs'[j].completed_at = NULL
     /\ \A j \in DOMAIN jobs :
          (jobs[j].completed_at = NULL /\ ~CompletesSucceeded(j))
            => /\ j \in DOMAIN jobs'
               /\ jobs'[j].completed_at = NULL]_vars

\* cleanup_old_jobs removed a completed row and kept a row that had failed
\* before
C25_Witness ==
  \E j \in DOMAIN jobs :
    /\ ret = Call("cleanup_old_jobs", NoJob, TRUE, 1)
    /\ jobs[j].status = "failed"
    /\ jobs[j].completed_at = NULL
    /\ claimed[j] = jobs[j].retry_count
    /\ jobs[j].scheduled_at < now

\* C26: in the worker loop a job with max_retries = M has been returned by
\* get_next_job at most M + 1 times.
C26_BoundedAttempts ==
  \A j \in DOMAIN jobs : claimed[j] <= jobs[j].max_retries + 1

\* a job with max_retries = 2 was returned three times and its third
\* failure made it failed
C26_Witness ==
  \E j \in DOMAIN jobs :
    /\ jobs[j].max_retries = 2
    /\ claimed[j] = 3
    /\ jobs[j].status = "failed"
    /\ jobs[j].retry_count = 3
    /\ \A w \in Workers : held[w] = NoJob

\* the rows caller w saw that still match WHERE and that no other
\* transaction holds locked
Unlocked(w) == StillEligible(w) \ LockedByOther(w)

\* C27: a get_next_job call whose scan meets a row locked by another call
\* goes on without waiting; it returns no row only when none of the eligible
\* rows is unlocked, and the row it returns is first, by priority descending
\* then scheduled_at ascending, among the eligible rows not locked by others.
C27_SkipLocked ==
  [][\A w \in Workers :
       /\ (pc[w] = "scan" /\ pos[w] <= Len(snap[w]))
            => ENABLED lock_step(w)
       /\ (pc[w] = "scan" /\ pc'[w] = "done") => Unlocked(w) = {}
       /\ \A j \in DOMAIN jobs :
            ReturnsTo(w, j) =>
              \A k \in Unlocked(w) :
                /\ jobs[k].priority <= jobs[j].priority
                /\ jobs[k].priority = jobs[j].priority
                     => jobs[k].scheduled_at >= jobs[j].scheduled_at]_vars

\* while one call holds the lock on the row of greater priority, not yet
\* committed, another call that saw both rows was returned the other row
C27_Witness ==
  \E w, v \in Workers, j, k \in DOMAIN jobs :
    /\ pc[v] = "locked" /\ got[v] = k
    /\ jobs[k].status = "pending"
    /\ pc[w] = "done" /\ got[w] = j
    /\ jobs[j].status = "processing"
    /\ k \in SnapRows(w)
    /\ jobs[k].priority > jobs[j].priority

\* C28: complete_job(j, true) on a processing row sets status to completed
\* and completed_at to now and leaves retry_count, error_message,
\* scheduled_at and started_at as they were; get_next_job leaves retry_count
\* and error_message as they were too, so a row completed after failed
\* attempts keeps the message of its last failure and its retry_count.
C28_SuccessFrame ==
  [][\A j \in DOMAIN jobs :
       /\ (CompletesSucceeded(j) /\ jobs[j].status = "processing")
            => /\ j \in DOMAIN jobs'
               /\ jobs'[j].status = "completed"
               /\ jobs'[j].completed_at = now
               /\ jobs'[j].retry_count = jobs[j].retry_count
               /\ jobs'[j].error_message = jobs[j].error_message
               /\ jobs'[j].scheduled_at = jobs[j].scheduled_at
               /\ jobs'[j].started_at = jobs[j].started_at
       /\ Returns(j)
            => /\ jobs'[j].retry_count = jobs[j].retry_count
               /\ jobs'[j].error_message = jobs[j].error_message]_vars

\* a row claimed, failed, claimed again and completed carries the message
\* of the failure and retry_count 1
C28_Witness ==
  \E j \in DOMAIN jobs :
    /\ ret = Call("complete_job", j, TRUE, NoJob)
    /\ jobs[j].status = "completed"
    /\ jobs[j].completed_at = now
    /\ jobs[j].started_at = jobs[j].scheduled_at
    /\ jobs[j].retry_count = 1
    /\ jobs[j].error_message = "boom"
    /\ claimed[j] = 2

\* C29: complete_job with an id no row of the queue has (never handed out,
\* or removed by cleanup_old_jobs) returns, for either value of p_success,
\* and leaves the queue as it was.
C29_UnknownJobId ==
  [][\A j \in JobIds \ DOMAIN jobs, s \in BOOLEAN, m \in Messages :
       /\ ENABLED complete_job(j, s, m)
       /\ complete_job(j, s, m)
            => /\ ret' = Call("complete_job", j, s, NoJob)
               /\ jobs' = jobs
               /\ claimed' = claimed
               /\ nextId' = nextId]_vars

\* complete_job(j, false) was called for a row that cleanup_old_jobs had
\* removed, next to a row that stays pending and untried
C29_Witness ==
  \E j \in JobIds \ DOMAIN jobs, k \in DOMAIN jobs :
    /\ j < nextId
    /\ ret = Call("complete_job", j, FALSE, NoJob)
    /\ jobs[k].status = "pending"
    /\ jobs[k].retry_count = 0
    /\ jobs[k].error_message = NoMessage

\* the calls: a key and the three counts
UsageCalls == UsageKeys \X RangeUsageArgs

\* what table tbl holds for key k: how many rows, and their accumulators
ValueOf(tbl, k) ==
  LET rows == {r \in DOMAIN tbl : tbl[r].key = k} IN
  IF rows = {}
    THEN [rows |-> 0, usage_count |-> 0, tokens_used |-> 0,
          estimated_cost_cents |-> 0]
    ELSE LET r == CHOOSE r \in rows : TRUE IN
         [rows |-> Cardinality(rows),
          usage_count |-> tbl[r].usage_count,
          tokens_used |-> tbl[r].tokens_used,
          estimated_cost_cents |-> tbl[r].estimated_cost_cents]

\* table tbl after call x, then call y
Twice(tbl, x, y) == Upserted(Upserted(tbl, x[1], x[2]), y[1], y[2])

\* calls x and y leave the same accumulators for every key in either order
Commute(tbl, x, y) ==
  \A k \in UsageKeys : ValueOf(Twice(tbl, x, y), k) = ValueOf(Twice(tbl, y, x), k)

\* call x leaves what the table holds for every other key as it was
OtherKeysKept(tbl, x) ==
  \A k \in UsageKeys \ {x[1]} :
    ValueOf(Upserted(tbl, x[1], x[2]), k) = ValueOf(tbl, k)

\* neither call raises, whichever of the two is applied first
NoneRejected(tbl, x, y) ==
  /\ ~Rejected(tbl, x[1], x[2])
  /\ ~Rejected(tbl, y[1], y[2])
  /\ ~Rejected(Upserted(tbl, x[1], x[2]), y[1], y[2])
  /\ ~Rejected(Upserted(tbl, y[1], y[2]), x[1], x[2])

=============================================================================
